---- MODULE Spec2Model ----
(***************************************************************************)
(* Model of bot_dashboard.py: a Streamlit script that is executed from top *)
(* to bottom on every render pass.  A pass checks the configuration,       *)
(* fetches portfolio_state / bot_logs / trade_history, stores the latest   *)
(* price in the session store, renders metrics, tables and a chart, and    *)
(* optionally sleeps and reruns.                                           *)
(*                                                                         *)
(* Python values are records [k, n, s]: k is the kind ("missing" for an    *)
(* absent dict key, "none", "num", "str"), n the number, s the string as a *)
(* sequence of one-character strings.  Floats are exact rationals [n, d].  *)
(***************************************************************************)
EXTENDS Integers, Sequences, FiniteSets, TLC

VARIABLES
    pc,             \* position of the script in the current pass
    trigger,        \* what started the current pass: "external" or "rerun"
    error,          \* terminal error of the pass: "none", "config", "no_portfolio", "db", "uncaught"
    queries,        \* queries issued to the store in this pass, in order
    positions,      \* portfolio["positions"] or {} : sequence of [key, pos]
    balance,        \* float(portfolio["balance_usdt"] or 0)
    logs,           \* result of fetch_bot_logs
    history,        \* result of fetch_trade_history
    session_state,  \* st.session_state["latest_price"]; survives passes
    price_reads,    \* latest prices read by normalize_positions in this pass
    rendered,       \* widgets rendered in this pass
    unrealized_pnl, \* the Unrealized PnL metric
    pos_rows,       \* rows of the Active Positions table
    df_chart,       \* the chart's time-ordered series
    markers,        \* the five marker groups of the chart
    recent,         \* rows of the Recent Activity table
    df_show,        \* rows of the Closed Trade History table
    auto            \* value of the Auto-refresh checkbox read by the last Controls step

vars == <<pc, trigger, error, queries, positions, balance, logs, history,
          session_state, price_reads, rendered, unrealized_pnl, pos_rows,
          df_chart, markers, recent, df_show, auto>>

-----------------------------------------------------------------------------
(* Bounds of the model *)

MaxPositions == 2
MaxLogs == 2

-----------------------------------------------------------------------------
(* Python values *)

Missing == [k |-> "missing", n |-> 0, s |-> <<>>]
PyNone == [k |-> "none", n |-> 0, s |-> <<>>]
Num(i) == [k |-> "num", n |-> i, s |-> <<>>]
Str(cs) == [k |-> "str", n |-> 0, s |-> cs]

\* bool(v) of a present value
Truthy(v) ==
    CASE v.k = "num" -> v.n # 0
      [] v.k = "str" -> Len(v.s) > 0
      [] OTHER -> FALSE

\* d.get(field, default): the default only when the key is absent
Get(v, default) == IF v.k = "missing" THEN default ELSE v

\* x or y
PyOr(x, y) == IF Truthy(x) THEN x ELSE y

\* d.get(field): None when the key is absent
GetNone(v) == Get(v, PyNone)

-----------------------------------------------------------------------------
(* Strings: sequences of one-character strings *)

Lowers == <<"a","b","c","d","e","f","g","h","i","j","k","l","m",
            "n","o","p","q","r","s","t","u","v","w","x","y","z">>
Uppers == <<"A","B","C","D","E","F","G","H","I","J","K","L","M",
            "N","O","P","Q","R","S","T","U","V","W","X","Y","Z">>
Digits == <<"0","1","2","3","4","5","6","7","8","9">>

UpperChar(c) ==
    IF \E i \in DOMAIN Lowers : Lowers[i] = c
    THEN Uppers[CHOOSE i \in DOMAIN Lowers : Lowers[i] = c]
    ELSE c

LowerChar(c) ==
    IF \E i \in DOMAIN Uppers : Uppers[i] = c
    THEN Lowers[CHOOSE i \in DOMAIN Uppers : Uppers[i] = c]
    ELSE c

\* str.upper() / str.lower()
Upper(s) == [i \in DOMAIN s |-> UpperChar(s[i])]
Lower(s) == [i \in DOMAIN s |-> LowerChar(s[i])]

\* sub in s
Contains(s, sub) ==
    \E i \in 0..(Len(s) - Len(sub)) :
        \A j \in 1..Len(sub) : s[i + j] = sub[j]

\* s[a:b] with 0 <= a <= b
Slice(s, a, b) ==
    IF a >= Len(s) THEN <<>>
    ELSE SubSeq(s, a + 1, IF b < Len(s) THEN b ELSE Len(s))

IsDigit(c) == \E i \in DOMAIN Digits : Digits[i] = c
DigitVal(c) == (CHOOSE i \in DOMAIN Digits : Digits[i] = c) - 1

RECURSIVE DigitsVal(_)
DigitsVal(s) ==
    IF s = <<>> THEN 0
    ELSE 10 * DigitsVal(SubSeq(s, 1, Len(s) - 1)) + DigitVal(s[Len(s)])

AllDigits(s) == Len(s) > 0 /\ \A i \in DOMAIN s : IsDigit(s[i])

\* str(v) as pandas astype(str) and Python str() give it
NoneStr == <<"N","o","n","e">>
NanStr == <<"n","a","n">>

-----------------------------------------------------------------------------
(* Floats as exact rationals *)

Abs(x) == IF x < 0 THEN -x ELSE x

RECURSIVE Gcd(_, _)
Gcd(a, b) == IF b = 0 THEN a ELSE Gcd(b, a % b)

Rat(n, d) ==
    LET g == Gcd(Abs(n), Abs(d))
        sgn == IF d < 0 THEN -1 ELSE 1
    IN  [n |-> sgn * (n \div g), d |-> sgn * (d \div g)]

RInt(i) == [n |-> i, d |-> 1]
RZero == RInt(0)
RAdd(a, b) == Rat(a.n * b.d + b.n * a.d, a.d * b.d)
RSub(a, b) == Rat(a.n * b.d - b.n * a.d, a.d * b.d)
RMul(a, b) == Rat(a.n * b.n, a.d * b.d)
RDiv(a, b) == Rat(a.n * b.d, a.d * b.n)
RNonZero(a) == a.n # 0
RPos(a) == a.n > 0
RNeg(a) == [n |-> -a.n, d |-> a.d]

\* float(v): a number, a string of decimal digits; anything else raises
PyFloat(v) ==
    CASE v.k = "num" -> [ok |-> TRUE, val |-> RInt(v.n)]
      [] v.k = "str" /\ AllDigits(v.s) -> [ok |-> TRUE, val |-> RInt(DigitsVal(v.s))]
      [] OTHER -> [ok |-> FALSE, val |-> RZero]

RECURSIVE IntStr(_)
IntStr(i) ==
    IF i < 10 THEN <<Digits[i + 1]>>
    ELSE IntStr(i \div 10) \o <<Digits[(i % 10) + 1]>>

\* str(v) of a present value (numbers of the model are non-negative ints)
PyStr(v) ==
    CASE v.k = "str" -> v.s
      [] v.k = "num" -> IntStr(v.n)
      [] OTHER -> NoneStr

-----------------------------------------------------------------------------
(* normalize_positions *)

LongStr == <<"l","o","n","g">>
ShortStr == <<"s","h","o","r","t">>
BuyStr == <<"b","u","y">>

\* faulty variant: the short branch computes the long formula
PnlShortAsLong(side, latest_price, entry, notional) ==
    IF latest_price.some /\ RNonZero(latest_price.val) /\ RNonZero(entry)
    THEN RMul(RDiv(RSub(latest_price.val, entry), entry), notional)
    ELSE RZero

\* lines 92-97 and 118-123: the directional pnl, 0 without a price or an entry
PnlOf(side, latest_price, entry, notional) ==
    IF latest_price.some /\ RNonZero(latest_price.val) /\ RNonZero(entry)
    THEN IF side = LongStr
         THEN RMul(RDiv(RSub(latest_price.val, entry), entry), notional)
         ELSE RMul(RDiv(RSub(entry, latest_price.val), entry), notional)
    ELSE RZero

\* lines 90 and 115
CollateralOf(notional, lev) ==
    IF RNonZero(lev) THEN RDiv(notional, lev) ELSE RZero

\* lines 99 and 125
RoiOf(pnl, collateral) ==
    IF RPos(collateral) THEN RMul(RDiv(pnl, collateral), RInt(100)) ELSE RZero

\* "notional_usdt" in pos or "side" in pos
IsV2(pos) == pos.notional_usdt.k # "missing" \/ pos.side.k # "missing"

\* one iteration of the loop over positions.items(); ok = FALSE when a float() raises
NormalizeOne(key, pos, latest_price) ==
    LET levF == PyFloat(PyOr(Get(pos.leverage, Num(1)), Num(1)))
        entryF == PyFloat(PyOr(Get(pos.entry_price, Num(0)), Num(0)))
        sizeF == IF IsV2(pos)
                 THEN PyFloat(PyOr(Get(pos.notional_usdt, Num(0)), Num(0)))
                 ELSE PyFloat(PyOr(Get(pos.qty, Num(0)), Num(0)))
        side == IF IsV2(pos)
                THEN Lower(PyStr(Get(pos.side, Str(LongStr))))
                ELSE IF Contains(Lower(key), BuyStr) THEN LongStr ELSE ShortStr
        collateral == CollateralOf(sizeF.val, levF.val)
        pnl == PnlOf(side, latest_price, entryF.val, sizeF.val)
    IN  [ok |-> levF.ok /\ entryF.ok /\ sizeF.ok,
         row |-> [Symbol |-> key,
                  Type |-> IF side = LongStr THEN "LONG" ELSE "SHORT",
                  Collateral |-> collateral,
                  Leverage |-> levF.val,
                  Notional |-> sizeF.val,
                  Entry |-> entryF.val,
                  PnL |-> pnl,
                  ROI |-> RoiOf(pnl, collateral)]]

\* normalize_positions(positions), reading latest_price from the session store;
\* raised = TRUE when a float() raised before the loop ended
normalize_positions(ps, latest_price) ==
    LET one == [i \in DOMAIN ps |-> NormalizeOne(ps[i].key, ps[i].pos, latest_price)]
    IN  IF \A i \in DOMAIN ps : one[i].ok
        THEN [raised |-> FALSE, rows |-> [i \in DOMAIN ps |-> one[i].row]]
        ELSE [raised |-> TRUE, rows |-> <<>>]

-----------------------------------------------------------------------------
(* Timestamps: safe_to_datetime *)

NaT == [ok |-> FALSE, Y |-> 0, M |-> 0, D |-> 0, h |-> 0, m |-> 0, s |-> 0, ms |-> 0]

\* the digits of s[a+1..b] as a number, -1 when they are not all digits
Field(s, a, b) ==
    IF AllDigits(SubSeq(s, a + 1, b)) THEN DigitsVal(SubSeq(s, a + 1, b)) ELSE -1

\* the optional fraction of a second: "." and digits; milliseconds, -1 when malformed
FracMs(f) ==
    IF f = <<>> THEN 0
    ELSE IF f[1] = "." /\ AllDigits(Tail(f))
         THEN DigitsVal(Slice(Tail(f) \o <<"0", "0", "0">>, 0, 3))
         ELSE -1

\* where the UTC designator starts in the text after the seconds
TzStart(rest) ==
    IF \E i \in DOMAIN rest : rest[i] \in {"Z", "+"}
    THEN CHOOSE i \in DOMAIN rest : rest[i] \in {"Z", "+"} /\ \A j \in 1..(i - 1) : rest[j] \notin {"Z", "+"}
    ELSE Len(rest) + 1

UtcDesignators == {<<>>, <<"Z">>, <<"+", "0", "0", ":", "0", "0">>}

\* pd.to_datetime(format="ISO8601", utc=True, errors="coerce") of one string, for
\* the forms YYYY-MM-DDTHH:MM:SS[.fff][Z|+00:00]; every other text is coerced to NaT
ParseIso(s) ==
    IF Len(s) < 19 THEN NaT
    ELSE LET Y == Field(s, 0, 4)
             M == Field(s, 5, 7)
             D == Field(s, 8, 10)
             h == Field(s, 11, 13)
             m == Field(s, 14, 16)
             sec == Field(s, 17, 19)
             rest == SubSeq(s, 20, Len(s))
             tz == TzStart(rest)
             ms == FracMs(SubSeq(rest, 1, tz - 1))
         IN  IF /\ s[5] = "-" /\ s[8] = "-" /\ s[11] \in {"T", " "}
                /\ s[14] = ":" /\ s[17] = ":"
                /\ Y >= 0 /\ M \in 1..12 /\ D \in 1..31
                /\ h \in 0..23 /\ m \in 0..59 /\ sec \in 0..59
                /\ ms >= 0
                /\ SubSeq(rest, tz, Len(rest)) \in UtcDesignators
             THEN [ok |-> TRUE, Y |-> Y, M |-> M, D |-> D, h |-> h, m |-> m, s |-> sec, ms |-> ms]
             ELSE NaT

\* safe_to_datetime applied to one cell: None and NaN give NaT
safe_to_datetime(v) == IF v.k = "str" THEN ParseIso(v.s) ELSE NaT

InstTuple(t) == <<t.Y, t.M, t.D, t.h, t.m, t.s, t.ms>>

\* t1 < t2 for two parsed instants
InstLess(t1, t2) ==
    \E i \in 1..7 :
        /\ InstTuple(t1)[i] < InstTuple(t2)[i]
        /\ \A j \in 1..(i - 1) : InstTuple(t1)[j] = InstTuple(t2)[j]

\* zero-padded decimal of width w
Pad(n, w) ==
    LET d == IntStr(n)
    IN  [i \in 1..(w - Len(d)) |-> "0"] \o d

\* Timestamp.strftime("%Y-%m-%d %H:%M:%S")
Strftime(t) ==
    Pad(t.Y, 4) \o <<"-">> \o Pad(t.M, 2) \o <<"-">> \o Pad(t.D, 2) \o <<" ">>
    \o Pad(t.h, 2) \o <<":">> \o Pad(t.m, 2) \o <<":">> \o Pad(t.s, 2)

-----------------------------------------------------------------------------
(* Bot logs chart: pd.DataFrame(logs) and the decision timeline *)

ACTION_INTENT_MAP ==
    { << <<"E","N","T","E","R","_","L","O","N","G">>, <<"e","n","t","e","r","_","l","o","n","g">> >>,
      << <<"E","N","T","E","R","_","S","H","O","R","T">>, <<"e","n","t","e","r","_","s","h","o","r","t">> >>,
      << <<"A","D","D">>, <<"a","d","d">> >>,
      << <<"R","E","D","U","C","E">>, <<"r","e","d","u","c","e">> >>,
      << <<"C","L","O","S","E">>, <<"f","l","a","t">> >>,
      << <<"H","O","L","D">>, <<"h","o","l","d">> >>,
      << <<"R","E","V","E","R","S","E">>, <<"r","e","v","e","r","s","e">> >> }

MapHas(key) == \E p \in ACTION_INTENT_MAP : p[1] = key
MapGet(key) == (CHOOSE p \in ACTION_INTENT_MAP : p[1] = key)[2]

HoldStr == <<"h","o","l","d">>

LogFields == {"created_at", "timestamp", "market_price", "intent", "action", "rationale", "thesis"}

\* df.columns: a column exists when some record has the key
Columns(recs, fields) == {f \in fields : \E i \in DOMAIN recs : recs[i][f].k # "missing"}

\* lines 228-229: the time column of the frame is chosen once for all rows
TimeCell(rec, cols) ==
    IF "created_at" \in cols THEN rec.created_at
    ELSE IF "timestamp" \in cols THEN rec.timestamp
    ELSE PyNone

\* Series.astype(str): NaN (absent key) gives "nan", None gives "None"
AsTypeStr(v) == IF v.k = "missing" THEN NanStr ELSE PyStr(v)

\* .astype(str).str.upper().map(ACTION_INTENT_MAP).fillna(<column>.astype(str))
MapIntent(v) ==
    IF MapHas(Upper(AsTypeStr(v))) THEN MapGet(Upper(AsTypeStr(v))) ELSE AsTypeStr(v)

\* lines 235-244: the intent column of the frame is chosen once for all rows
IntentNorm(rec, cols) ==
    IF "intent" \in cols THEN MapIntent(rec.intent)
    ELSE IF "action" \in cols THEN MapIntent(rec.action)
    ELSE HoldStr

\* pd.to_numeric(errors="coerce") of one cell
ToNumeric(v) ==
    IF PyFloat(v).ok THEN [some |-> TRUE, val |-> PyFloat(v).val]
    ELSE [some |-> FALSE, val |-> RZero]

\* lines 225-248: one row per record whose time cell parses (dropna)
ChartRow(recs, i) ==
    LET cols == Columns(recs, LogFields)
    IN  [idx |-> i,
         created_at |-> safe_to_datetime(TimeCell(recs[i], cols)),
         market_price |-> ToNumeric(recs[i].market_price),
         intent_norm |-> IntentNorm(recs[i], cols)]

Kept(recs) == {i \in DOMAIN recs : ChartRow(recs, i).created_at.ok}

\* line 250: sort_values("created_at"); rows with equal instants keep frame order
ChartRank(recs, i) ==
    Cardinality({j \in Kept(recs) :
        \/ InstLess(ChartRow(recs, j).created_at, ChartRow(recs, i).created_at)
        \/ (ChartRow(recs, j).created_at = ChartRow(recs, i).created_at /\ j <= i)})

DfChart(recs) ==
    [p \in 1..Cardinality(Kept(recs)) |->
        ChartRow(recs, CHOOSE i \in Kept(recs) : ChartRank(recs, i) = p)]

\* lines 255-259: the marker groups, as the record indexes of their rows
Group(df, names) == {df[p].idx : p \in {q \in DOMAIN df : df[q].intent_norm \in names}}

Markers(df) ==
    [buys |-> Group(df, { <<"e","n","t","e","r","_","l","o","n","g">> }),
     shorts |-> Group(df, { <<"e","n","t","e","r","_","s","h","o","r","t">> }),
     adds |-> Group(df, { <<"a","d","d">> }),
     reduces |-> Group(df, { <<"r","e","d","u","c","e">> }),
     exits |-> Group(df, { <<"f","l","a","t">>, <<"r","e","v","e","r","s","e">> })]

NoMarkers == [buys |-> {}, shorts |-> {}, adds |-> {}, reduces |-> {}, exits |-> {}]

RecentLimit == 25
ThesisLimit == 160

\* lines 277-283: one row of the Recent Activity table
RecentRow(rec, i) ==
    LET ts == PyStr(PyOr(PyOr(GetNone(rec.created_at), GetNone(rec.timestamp)), Str(<<>>)))
    IN  [idx |-> i,
         Time |-> IF Contains(ts, <<"T">>) THEN Slice(ts, 11, 19) ELSE ts,
         Decision |-> PyOr(PyOr(GetNone(rec.intent), GetNone(rec.action)), Str(<<>>)),
         Thesis |-> Slice(PyStr(PyOr(PyOr(GetNone(rec.rationale), GetNone(rec.thesis)), Str(<<>>))),
                          0, ThesisLimit)]

Recent(recs) ==
    [i \in 1..(IF Len(recs) < RecentLimit THEN Len(recs) ELSE RecentLimit) |-> RecentRow(recs[i], i)]

-----------------------------------------------------------------------------
(* Closed trade history *)

HistFields == {"created_at", "timestamp", "symbol", "pnl"}
ShowOrder == <<"_ts", "symbol", "pnl">>

\* lines 298-300: trade["_ts"] = created_at or timestamp or ""
TradeTs(trade) == PyOr(PyOr(GetNone(trade.created_at), GetNone(trade.timestamp)), Str(<<>>))

\* line 304: sort_values("_ts", ascending=False); NaT rows last, ties in frame order
HistRank(trades, i) ==
    LET t(j) == safe_to_datetime(TradeTs(trades[j]))
    IN  Cardinality({j \in DOMAIN trades :
            \/ (t(j).ok /\ ~t(i).ok)
            \/ (t(j).ok /\ t(i).ok /\ InstLess(t(i), t(j)))
            \/ (t(j) = t(i) /\ j <= i)})

\* lines 306-313: the displayed columns and the formatted rows
DfShow(trades) ==
    [cols |-> SelectSeq(ShowOrder, LAMBDA c : c \in (Columns(trades, HistFields) \cup {"_ts"})),
     rows |-> [p \in DOMAIN trades |->
        LET i == CHOOSE j \in DOMAIN trades : HistRank(trades, j) = p
            t == safe_to_datetime(TradeTs(trades[i]))
        IN  [idx |-> i, ts |-> IF t.ok THEN Strftime(t) ELSE NanStr]]]

NoShow == [cols |-> <<>>, rows |-> <<>>]

-----------------------------------------------------------------------------
(* Data fetchers.  A store response is [raises, data]: the query raised, or *)
(* returned res.data (a list; None is modelled by the empty list).  Each    *)
(* issued query is recorded with its table, its ordering and its outcome.   *)

Query(table, order, raised) == [table |-> table, order |-> order, raised |-> raised]

\* faulty variant: an exception of the second query is swallowed into []
FetchListSwallow(table, pref, fb) ==
    IF ~pref.raises
    THEN [raised |-> FALSE, data |-> pref.data,
          attempts |-> <<Query(table, "created_at", FALSE)>>]
    ELSE [raised |-> FALSE, data |-> IF fb.raises THEN <<>> ELSE fb.data,
          attempts |-> <<Query(table, "created_at", TRUE), Query(table, "timestamp", fb.raises)>>]

\* lines 46-51 and 59-64: try the created_at ordering, on any exception the
\* timestamp ordering; an exception of the second query is not caught
FetchList(table, pref, fb) ==
    IF ~pref.raises
    THEN [raised |-> FALSE, data |-> pref.data,
          attempts |-> <<Query(table, "created_at", FALSE)>>]
    ELSE [raised |-> fb.raises, data |-> IF fb.raises THEN <<>> ELSE fb.data,
          attempts |-> <<Query(table, "created_at", TRUE), Query(table, "timestamp", fb.raises)>>]

fetch_bot_logs(pref, fb) == FetchList("bot_logs", pref, fb)
fetch_trade_history(pref, fb) == FetchList("trade_history", pref, fb)

\* lines 66-68: the row with id = 1, or None
fetch_portfolio_state(resp) ==
    [raised |-> resp.raises,
     found |-> ~resp.raises /\ Len(resp.data) > 0,
     row |-> IF ~resp.raises /\ Len(resp.data) > 0 THEN resp.data[1]
             ELSE [positions |-> [k |-> "none", m |-> <<>>], balance_usdt |-> PyNone]]

\* line 149: portfolio.get("positions") or {}
PositionsOf(row) == IF row.positions.k = "map" THEN row.positions.m ELSE <<>>

\* line 150: float(portfolio.get("balance_usdt", 0) or 0)
BalanceOf(row) == PyFloat(PyOr(Get(row.balance_usdt, Num(0)), Num(0)))

\* lines 168-171: the latest price of the pass, from the first fetched log
LatestPriceOf(lg) ==
    LET v == IF Len(lg) > 0 THEN GetNone(lg[1].market_price) ELSE PyNone
    IN  IF v.k = "none"
        THEN [raised |-> FALSE, price |-> [some |-> FALSE, val |-> RZero]]
        ELSE [raised |-> ~PyFloat(v).ok, price |-> [some |-> TRUE, val |-> PyFloat(v).val]]

\* faulty variant: the store is written only when logs were fetched
SessionKeepWithoutLogs(old, lg) ==
    IF Len(lg) > 0 THEN LatestPriceOf(lg).price ELSE old

\* line 171: the session store's latest_price after the assignment
SessionAfterStore(old, lg) == LatestPriceOf(lg).price

\* bool(st.session_state["latest_price"])
PriceTruthy(p) == p.some /\ RNonZero(p.val)

RECURSIVE SumField(_, _)
SumField(rows, f) ==
    IF rows = <<>> THEN RZero ELSE RAdd(rows[1][f], SumField(Tail(rows), f))

\* faulty variant: the rerun does not look at the checkbox
RerunAlways(a) == TRUE

\* line 327: if auto
ShouldRerun(a) == a

-----------------------------------------------------------------------------
(* What the store can hold: the inputs of a pass *)

SeqsUpTo(S, n) == UNION {[1..k -> S] : k \in 0..n}

DistinctKeys(ps) == \A i, j \in DOMAIN ps : i # j => ps[i].key # ps[j].key

AbcStr == <<"a","b","c">>
KeyBuy == <<"B","T","C","_","b","u","y">>
KeySell == <<"B","T","C","_","s","e","l","l">>
KeySym == <<"B","T","C">>

Pos(lev, entry, qty, side, notional) ==
    [leverage |-> lev, entry_price |-> entry, qty |-> qty, side |-> side, notional_usdt |-> notional]

\* positions of the portfolio row: a well-formed legacy long and a
\* current-variant short whose leverage is not a number
StoreEntries ==
    { [key |-> KeyBuy, pos |-> Pos(Num(10), Num(100), Num(1000), Missing, Missing)],
      [key |-> KeySym, pos |-> Pos(Str(AbcStr), Num(100), Missing, Str(ShortStr), Num(1000))] }

StorePositions == {ps \in SeqsUpTo(StoreEntries, MaxPositions) : DistinctKeys(ps)}

StoreRows ==
    {[positions |-> [k |-> "map", m |-> ps], balance_usdt |-> b] :
        ps \in StorePositions, b \in {Num(500), Str(AbcStr)}}
    \cup {[positions |-> [k |-> "none", m |-> <<>>], balance_usdt |-> Num(500)]}

PortfolioResponses ==
    {[raises |-> TRUE, data |-> <<>>], [raises |-> FALSE, data |-> <<>>]}
    \cup {[raises |-> FALSE, data |-> <<r>>] : r \in StoreRows}

Ts1 == <<"2","0","2","4","-","0","1","-","0","1","T","1","2",":","3","4",":","5","6",
         ".","7","8","9","+","0","0",":","0","0">>
Ts2 == <<"2","0","2","4","-","0","1","-","0","2","T","0","0",":","0","0",":","0","0","Z">>
NotADate == <<"n","o","t","-","a","-","d","a","t","e">>

Log(created, ts, price, intent, action) ==
    [created_at |-> created, timestamp |-> ts, market_price |-> price,
     intent |-> intent, action |-> action, rationale |-> Missing, thesis |-> Missing]

\* bot_logs records (every row of the table carries the market_price column,
\* possibly None): a record of the current schema; a record with action
\* instead of intent and a price that is not a number; a record of the old
\* schema (timestamp only) with no price and an intent outside the lookup
\* table; a record whose time does not parse
StoreLogs ==
    { Log(Str(Ts1), Missing, Num(110), Str(<<"E","N","T","E","R","_","L","O","N","G">>), Missing),
      Log(Str(Ts2), Missing, Str(AbcStr), Missing, Str(<<"A","D","D">>)),
      Log(Missing, Str(Ts2), PyNone, Str(<<"U","N","K","N","O","W","N","_","X">>), Missing),
      Log(Str(NotADate), Missing, PyNone, Str(<<"f","l","a","t">>), Missing) }

LogResponses ==
    {[raises |-> TRUE, data |-> <<>>]}
    \cup {[raises |-> FALSE, data |-> l] : l \in SeqsUpTo(StoreLogs, MaxLogs)}

Trade(created, ts, symbol, pnl) ==
    [created_at |-> created, timestamp |-> ts, symbol |-> symbol, pnl |-> pnl]

StoreTrades ==
    { <<>>,
      <<Trade(Missing, Str(NotADate), Missing, Num(5)), Trade(Str(Ts1), Missing, Missing, Num(7))>> }

TradeResponses ==
    {[raises |-> TRUE, data |-> <<>>]} \cup {[raises |-> FALSE, data |-> h] : h \in StoreTrades}

\* the store's answer to the second query matters only when the first raised
Fallbacks(pref, responses) == IF pref.raises THEN responses ELSE {pref}

NoPrice == [some |-> FALSE, val |-> RZero]

-----------------------------------------------------------------------------
(* The render pass *)

\* the script's globals at the start of a pass; the session store and the
\* widget value survive from the pass before
StartPass(how) ==
    /\ pc' = "config"
    /\ trigger' = how
    /\ error' = "none"
    /\ queries' = <<>>
    /\ positions' = <<>>
    /\ balance' = RZero
    /\ logs' = <<>>
    /\ history' = <<>>
    /\ price_reads' = <<>>
    /\ rendered' = {}
    /\ unrealized_pnl' = RZero
    /\ pos_rows' = <<>>
    /\ df_chart' = <<>>
    /\ markers' = NoMarkers
    /\ recent' = <<>>
    /\ df_show' = NoShow
    /\ UNCHANGED <<session_state, auto>>

\* st.error(...) + st.stop(), or an exception nothing catches: the pass ends
Halt(kind) ==
    /\ pc' = "stopped"
    /\ error' = kind

\* lines 155-157: st.error("Database Connection Error") and st.stop()
OnDbError == Halt("db")

\* faulty variant: the branch of lines 145-147 without its st.stop()
OnNoPortfolioContinue ==
    /\ pc' = "logs"
    /\ error' = "no_portfolio"

\* lines 145-147: st.error("portfolio_state row id=1 not found") and st.stop();
\* st.stop() raises a BaseException, which the except Exception of line 155
\* does not catch
OnNoPortfolio == Halt("no_portfolio")

Init ==
    /\ pc = "config"
    /\ trigger = "external"
    /\ error = "none"
    /\ queries = <<>>
    /\ positions = <<>>
    /\ balance = RZero
    /\ logs = <<>>
    /\ history = <<>>
    /\ session_state = NoPrice
    /\ price_reads = <<>>
    /\ rendered = {}
    /\ unrealized_pnl = RZero
    /\ pos_rows = <<>>
    /\ df_chart = <<>>
    /\ markers = NoMarkers
    /\ recent = <<>>
    /\ df_show = NoShow
    /\ auto = FALSE

\* lines 11-21: the credentials of the environment
ConfigCheck ==
    /\ pc = "config"
    /\ \E url \in BOOLEAN, key \in BOOLEAN :
        IF ~url \/ ~key
        THEN Halt("config")
        ELSE pc' = "portfolio" /\ UNCHANGED error
    /\ UNCHANGED <<trigger, queries, positions, balance, logs, history, session_state,
                   price_reads, rendered, unrealized_pnl, pos_rows, df_chart, markers,
                   recent, df_show, auto>>

\* lines 144-150
LoadPortfolio ==
    /\ pc = "portfolio"
    /\ \E resp \in PortfolioResponses :
        LET r == fetch_portfolio_state(resp)
        IN  /\ queries' = Append(queries, Query("portfolio_state", "id", resp.raises))
            /\ IF r.raised
               THEN OnDbError /\ UNCHANGED <<positions, balance>>
               ELSE IF ~r.found
               THEN OnNoPortfolio /\ UNCHANGED <<positions, balance>>
               ELSE IF ~BalanceOf(r.row).ok
               THEN OnDbError /\ positions' = PositionsOf(r.row) /\ UNCHANGED balance
               ELSE /\ pc' = "logs"
                    /\ positions' = PositionsOf(r.row)
                    /\ balance' = BalanceOf(r.row).val
                    /\ UNCHANGED error
    /\ UNCHANGED <<trigger, logs, history, session_state, price_reads, rendered,
                   unrealized_pnl, pos_rows, df_chart, markers, recent, df_show, auto>>

\* line 152
LoadLogs ==
    /\ pc = "logs"
    /\ \E pref \in LogResponses : \E fb \in Fallbacks(pref, LogResponses) :
        LET r == fetch_bot_logs(pref, fb)
        IN  /\ queries' = queries \o r.attempts
            /\ IF r.raised
               THEN OnDbError /\ UNCHANGED logs
               ELSE pc' = "history" /\ logs' = r.data /\ UNCHANGED error
    /\ UNCHANGED <<trigger, positions, balance, history, session_state, price_reads,
                   rendered, unrealized_pnl, pos_rows, df_chart, markers, recent,
                   df_show, auto>>

\* line 153
LoadHistory ==
    /\ pc = "history"
    /\ \E pref \in TradeResponses : \E fb \in Fallbacks(pref, TradeResponses) :
        LET r == fetch_trade_history(pref, fb)
        IN  /\ queries' = queries \o r.attempts
            /\ IF r.raised
               THEN OnDbError /\ UNCHANGED history
               ELSE pc' = "latest_price" /\ history' = r.data /\ UNCHANGED error
    /\ UNCHANGED <<trigger, positions, balance, logs, session_state, price_reads,
                   rendered, unrealized_pnl, pos_rows, df_chart, markers, recent,
                   df_show, auto>>

\* lines 160-171: the debug sidebar, then the latest price into the session store
StoreLatestPrice ==
    /\ pc = "latest_price"
    /\ rendered' = rendered \cup {"debug"}
    /\ IF LatestPriceOf(logs).raised
       THEN Halt("uncaught") /\ UNCHANGED session_state
       ELSE /\ pc' = "top_stats"
            /\ session_state' = SessionAfterStore(session_state, logs)
            /\ UNCHANGED error
    /\ UNCHANGED <<trigger, queries, positions, balance, logs, history, price_reads,
                   unrealized_pnl, pos_rows, df_chart, markers, recent, df_show, auto>>

\* lines 176-198: the four metrics; the pnl loop calls normalize_positions
TopStats ==
    /\ pc = "top_stats"
    /\ LET calls == Len(positions) > 0 /\ PriceTruthy(session_state)
           r == normalize_positions(positions, session_state)
       IN  /\ price_reads' = IF calls THEN Append(price_reads, session_state) ELSE price_reads
           /\ IF calls /\ r.raised
              THEN /\ Halt("uncaught")
                   /\ rendered' = rendered \cup {"metric_balance", "metric_positions", "metric_price"}
                   /\ UNCHANGED unrealized_pnl
              ELSE /\ pc' = "positions_table"
                   /\ rendered' = rendered \cup {"metric_balance", "metric_positions",
                                                 "metric_price", "metric_pnl"}
                   /\ unrealized_pnl' = IF calls THEN SumField(r.rows, "PnL") ELSE RZero
                   /\ UNCHANGED error
    /\ UNCHANGED <<trigger, queries, positions, balance, logs, history, session_state,
                   pos_rows, df_chart, markers, recent, df_show, auto>>

\* lines 203-217
PositionsTable ==
    /\ pc = "positions_table"
    /\ LET r == normalize_positions(positions, session_state)
       IN  /\ price_reads' = IF Len(positions) > 0 THEN Append(price_reads, session_state)
                             ELSE price_reads
           /\ IF r.raised
              THEN Halt("uncaught") /\ UNCHANGED <<pos_rows, rendered>>
              ELSE /\ pc' = "chart"
                   /\ pos_rows' = r.rows
                   /\ rendered' = rendered \cup
                        {IF Len(r.rows) > 0 THEN "positions_table" ELSE "positions_info"}
                   /\ UNCHANGED error
    /\ UNCHANGED <<trigger, queries, positions, balance, logs, history, session_state,
                   unrealized_pnl, df_chart, markers, recent, df_show, auto>>

\* lines 222-289
BotLogsChart ==
    /\ pc = "chart"
    /\ pc' = "trade_history"
    /\ IF Len(logs) > 0
       THEN /\ df_chart' = DfChart(logs)
            /\ markers' = Markers(DfChart(logs))
            /\ recent' = Recent(logs)
            /\ rendered' = rendered \cup {"chart", "recent_table"}
       ELSE /\ rendered' = rendered \cup {"logs_info"}
            /\ UNCHANGED <<df_chart, markers, recent>>
    /\ UNCHANGED <<trigger, error, queries, positions, balance, logs, history,
                   session_state, price_reads, unrealized_pnl, pos_rows, df_show, auto>>

\* lines 294-317
TradeHistory ==
    /\ pc = "trade_history"
    /\ pc' = "controls"
    /\ IF Len(history) > 0
       THEN df_show' = DfShow(history) /\ rendered' = rendered \cup {"history_table"}
       ELSE rendered' = rendered \cup {"history_info"} /\ UNCHANGED df_show
    /\ UNCHANGED <<trigger, error, queries, positions, balance, logs, history,
                   session_state, price_reads, unrealized_pnl, pos_rows, df_chart,
                   markers, recent, auto>>

\* lines 322-328: the checkbox value is the user's; sleep when it is checked
Controls ==
    /\ pc = "controls"
    /\ rendered' = rendered \cup {"controls"}
    /\ \E a \in BOOLEAN :
        /\ auto' = a
        /\ pc' = IF ShouldRerun(a) THEN "sleeping" ELSE "done"
    /\ UNCHANGED <<trigger, error, queries, positions, balance, logs, history,
                   session_state, price_reads, unrealized_pnl, pos_rows, df_chart,
                   markers, recent, df_show>>

\* line 329: st.rerun() after the sleep
Rerun ==
    /\ pc = "sleeping"
    /\ StartPass("rerun")

\* a user interaction or a reload runs the script again
ExternalTrigger ==
    /\ pc \in {"done", "stopped"}
    /\ StartPass("external")

Next ==
    \/ ConfigCheck
    \/ LoadPortfolio
    \/ LoadLogs
    \/ LoadHistory
    \/ StoreLatestPrice
    \/ TopStats
    \/ PositionsTable
    \/ BotLogsChart
    \/ TradeHistory
    \/ Controls
    \/ Rerun
    \/ ExternalTrigger

Spec == Init /\ [][Next]_vars

-----------------------------------------------------------------------------
(* normalize_positions on its own: every position mapping of the two schemas *)
(* with well-formed numbers, under every latest price                        *)

ZeroStr == <<"0">>

LegacyPos ==
    {Pos(lev, entry, Num(1000), Missing, Missing) :
        lev \in {Num(0), Num(10), Str(ZeroStr)}, entry \in {Missing, Num(0), Num(100)}}

CurrentPos ==
    {Pos(lev, entry, Missing, sn[1], sn[2]) :
        lev \in {Num(0), Num(10)}, entry \in {Missing, Num(0), Num(100)},
        sn \in { <<Str(LongStr), Num(1000)>>, <<Str(ShortStr), Num(1000)>>,
                 <<Missing, Num(1000)>> }}

NormEntries ==
    {[key |-> k, pos |-> p] : k \in {KeyBuy, KeySell}, p \in LegacyPos}
    \cup {[key |-> KeySym, pos |-> p] : p \in CurrentPos}

NormPositions == {ps \in SeqsUpTo(NormEntries, MaxPositions) : DistinctKeys(ps)}

NormPrices ==
    {NoPrice, [some |-> TRUE, val |-> RInt(0)], [some |-> TRUE, val |-> RInt(110)],
     [some |-> TRUE, val |-> RInt(90)]}

InitNormalize ==
    /\ pc = "normalize"
    /\ positions \in NormPositions
    /\ session_state \in NormPrices
    /\ trigger = "external"
    /\ error = "none"
    /\ queries = <<>>
    /\ balance = RZero
    /\ logs = <<>>
    /\ history = <<>>
    /\ price_reads = <<>>
    /\ rendered = {}
    /\ unrealized_pnl = RZero
    /\ pos_rows = <<>>
    /\ df_chart = <<>>
    /\ markers = NoMarkers
    /\ recent = <<>>
    /\ df_show = NoShow
    /\ auto = FALSE

\* one call of normalize_positions(positions)
NormalizeCall ==
    /\ pc = "normalize"
    /\ LET r == normalize_positions(positions, session_state)
       IN  /\ pc' = "normalized"
           /\ error' = IF r.raised THEN "uncaught" ELSE "none"
           /\ pos_rows' = r.rows
           /\ price_reads' = IF Len(positions) > 0 THEN Append(price_reads, session_state)
                             ELSE price_reads
    /\ UNCHANGED <<trigger, queries, positions, balance, logs, history, session_state,
                   rendered, unrealized_pnl, df_chart, markers, recent, df_show, auto>>

NextNormalize == NormalizeCall

SpecNormalize == InitNormalize /\ [][NextNormalize]_vars

-----------------------------------------------------------------------------
(* Properties *)

TableQueries(t) == SelectSeq(queries, LAMBDA q : q.table = t)

BothRaised(t) == <<Query(t, "created_at", TRUE), Query(t, "timestamp", TRUE)>>

FetchPatterns(t) ==
    { <<>>,
      <<Query(t, "created_at", FALSE)>>,
      <<Query(t, "created_at", TRUE), Query(t, "timestamp", FALSE)>>,
      BothRaised(t) }

\* C1: for bot_logs and trade_history, the query ordered by timestamp is issued
\* exactly when the query ordered by created_at raised, and once; when it raises
\* too the pass is halted with the database error and goes no further (no list,
\* empty or not, stands in for the failed fetch).
C1_FallbackOnceThenPropagate ==
    \A t \in {"bot_logs", "trade_history"} :
        /\ TableQueries(t) \in FetchPatterns(t)
        /\ TableQueries(t) = BothRaised(t) =>
            /\ pc = "stopped"
            /\ error = "db"
            /\ queries[Len(queries)] = Query(t, "timestamp", TRUE)
            /\ rendered = {}

C1_Witness ==
    /\ TableQueries("bot_logs") =
         <<Query("bot_logs", "created_at", TRUE), Query("bot_logs", "timestamp", FALSE)>>
    /\ Len(logs) > 0
    /\ TableQueries("trade_history") = BothRaised("trade_history")
    /\ pc = "stopped"

\* C2: a pass that ended in a terminal error runs no later step: with missing
\* credentials no query was issued, with an absent portfolio row only the
\* portfolio_state query was issued, and after either of them or a database
\* error the pass is stopped with no metric, table or chart rendered.
C2_HaltedPassRunsNothingMore ==
    /\ error \in {"config", "no_portfolio", "db"} => pc = "stopped" /\ rendered = {}
    /\ error = "config" => queries = <<>>
    /\ error = "no_portfolio" =>
        /\ queries = <<Query("portfolio_state", "id", FALSE)>>
        /\ TableQueries("bot_logs") = <<>>
        /\ TableQueries("trade_history") = <<>>

C2_Witness ==
    /\ error = "no_portfolio"
    /\ pc = "stopped"
    /\ trigger = "rerun"
    /\ Len(queries) = 1

\* the numbers of a position as the data model reads them (absent is 0)
ClaimNum(v) == IF v.k = "num" THEN RInt(v.n) ELSE RZero
ClaimEntry(e) == ClaimNum(e.pos.entry_price)
ClaimNotional(e) == IF IsV2(e.pos) THEN ClaimNum(e.pos.notional_usdt) ELSE ClaimNum(e.pos.qty)
ClaimIsLong(e) ==
    IF IsV2(e.pos) THEN e.pos.side \in {Missing, Str(LongStr)}
    ELSE e.key = KeyBuy
ClaimNoPnl(e, lp) == ~lp.some \/ lp.val = RZero \/ ClaimEntry(e) = RZero
ClaimLongPnl(e, lp) ==
    RMul(RDiv(RSub(lp.val, ClaimEntry(e)), ClaimEntry(e)), ClaimNotional(e))
ClaimShortPnl(e, lp) ==
    RMul(RDiv(RSub(ClaimEntry(e), lp.val), ClaimEntry(e)), ClaimNotional(e))

ExampleLong == Pos(Num(10), Num(100), Missing, Str(LongStr), Num(1000))

\* C3 (as claimed): every legacy position with leverage = 0 gets collateral 0
\* and roi 0.
C3_LegacyZeroLeverage ==
    pc = "normalized" =>
        \A i \in DOMAIN pos_rows :
            (~IsV2(positions[i].pos) /\ positions[i].pos.leverage = Num(0)) =>
                pos_rows[i].Collateral = RZero /\ pos_rows[i].ROI = RZero

\* C4: every position of either variant gets pnl = (latest - entry) / entry *
\* notional when long, (entry - latest) / entry * notional when short, and 0
\* when the latest price or the entry is absent or zero; a short's pnl is the
\* negation of the long's; a current-variant long with entry 100, latest 110,
\* notional 1000, leverage 10 gets collateral 100, pnl 100, roi 100.
C4_DirectionalPnl ==
    pc = "normalized" =>
        /\ Len(pos_rows) = Len(positions)
        /\ \A i \in DOMAIN pos_rows :
            LET e == positions[i]
                row == pos_rows[i]
            IN  /\ ClaimNoPnl(e, session_state) => row.PnL = RZero
                /\ (~ClaimNoPnl(e, session_state) /\ ClaimIsLong(e)) =>
                        row.PnL = ClaimLongPnl(e, session_state)
                /\ (~ClaimNoPnl(e, session_state) /\ ~ClaimIsLong(e)) =>
                        /\ row.PnL = ClaimShortPnl(e, session_state)
                        /\ row.PnL = RNeg(ClaimLongPnl(e, session_state))
                /\ (e.pos = ExampleLong /\ session_state = [some |-> TRUE, val |-> RInt(110)]) =>
                        /\ row.Collateral = RInt(100)
                        /\ row.PnL = RInt(100)
                        /\ row.ROI = RInt(100)

C4_Witness ==
    /\ pc = "normalized"
    /\ session_state = [some |-> TRUE, val |-> RInt(110)]
    /\ \E i, j \in DOMAIN pos_rows :
        /\ positions[i].pos = ExampleLong
        /\ pos_rows[i].PnL = RInt(100)
        /\ pos_rows[j].Type = "SHORT"
        /\ pos_rows[j].PnL = RInt(-100)

AfterChart == pc \in {"trade_history", "controls", "done", "sleeping"}

AllMarked == markers.buys \cup markers.shorts \cup markers.adds \cup markers.reduces \cup markers.exits

EnterLongKey == <<"E","N","T","E","R","_","L","O","N","G">>

\* C5 (as claimed): a charted record whose intent is not a key of the lookup table
\* after upper-casing has the lower-cased intent as its normalized intent and is
\* in no marker group; one with intent ENTER_LONG is normalized to enter_long
\* and is in the Enter Long group only.
C5_UnmappedIntentLowerCased ==
    AfterChart =>
        \A p \in DOMAIN df_chart :
            LET v == logs[df_chart[p].idx].intent
            IN  /\ (v.k = "str" /\ ~MapHas(Upper(v.s))) =>
                    /\ df_chart[p].intent_norm = Lower(v.s)
                    /\ df_chart[p].idx \notin AllMarked
                /\ v = Str(EnterLongKey) =>
                    /\ df_chart[p].intent_norm = Lower(EnterLongKey)
                    /\ df_chart[p].idx \in markers.buys
                    /\ df_chart[p].idx \notin
                         (markers.shorts \cup markers.adds \cup markers.reduces \cup markers.exits)

\* C6 (as claimed): malformed per-record data never halts a pass: no pass ends
\* in an exception raised by a conversion, and a pass halted with the database
\* error had a query that raised.
C6_MalformedDataNeverHalts ==
    /\ error # "uncaught"
    /\ error = "db" => \E i \in DOMAIN queries : queries[i].raised

\* the time field a record selects for itself
OwnTime(rec) == IF rec.created_at.k # "missing" THEN rec.created_at ELSE rec.timestamp

ChartIdx == {df_chart[p].idx : p \in DOMAIN df_chart}
RecentIdx == {recent[p].idx : p \in DOMAIN recent}

\* C7 (as claimed): a fetched record is in the chart series exactly when its own
\* time field (created_at if it has one, else timestamp) parses; a record whose
\* time does not parse is still in the recent-activity list when it is among
\* the first 25.
C7_ChartedIffOwnTimeParses ==
    (AfterChart /\ Len(logs) > 0) =>
        \A i \in DOMAIN logs :
            /\ (i \in ChartIdx) <=> safe_to_datetime(OwnTime(logs[i])).ok
            /\ (~safe_to_datetime(OwnTime(logs[i])).ok /\ i <= RecentLimit) => i \in RecentIdx

\* the intent field a record selects for itself
OwnIntent(rec) ==
    IF rec.intent.k # "missing" THEN rec.intent
    ELSE IF rec.action.k # "missing" THEN rec.action
    ELSE Str(HoldStr)

\* C8 (as claimed): a charted record's normalized intent comes from its own
\* intent, else its own action, else is hold: when that value is a key of the
\* lookup table the normalized intent is the table's value, and a record with
\* only action ADD is in the Add group.
C8_IntentFromOwnField ==
    AfterChart =>
        \A p \in DOMAIN df_chart :
            LET rec == logs[df_chart[p].idx]
                own == OwnIntent(rec)
            IN  /\ (own.k = "str" /\ MapHas(Upper(own.s))) =>
                        df_chart[p].intent_norm = MapGet(Upper(own.s))
                /\ (rec.intent.k = "missing" /\ rec.action = Str(<<"A","D","D">>)) =>
                        df_chart[p].idx \in markers.adds

\* the latest price of a pass as the claim defines it
ClaimPrice(lg) ==
    IF Len(lg) = 0 THEN NoPrice
    ELSE IF lg[1].market_price.k \in {"missing", "none"} THEN NoPrice
    ELSE [some |-> TRUE, val |-> PyFloat(lg[1].market_price).val]

\* C9: in every pass, each latest price normalize_positions read is the one the
\* same pass stored from the first record of its own fetched logs (absent
\* without logs or without a market_price); a value of an earlier pass is
\* never read.
C9_PriceReadIsThisPassPrice ==
    \A i \in DOMAIN price_reads :
        /\ price_reads[i] = ClaimPrice(logs)
        /\ pc \notin {"config", "portfolio", "logs", "history", "latest_price"}

C9_Witness ==
    /\ trigger = "rerun"
    /\ Len(price_reads) = 1
    /\ price_reads[1] = NoPrice
    /\ Len(logs) = 0
    /\ pc = "done"

LastNotRaised(t) ==
    TableQueries(t) # <<>> /\ ~TableQueries(t)[Len(TableQueries(t))].raised

PassComplete ==
    /\ error = "none"
    /\ \A t \in {"portfolio_state", "bot_logs", "trade_history"} : LastNotRaised(t)
    /\ {"debug", "metric_balance", "metric_positions", "metric_price", "metric_pnl",
        "controls"} \subseteq rendered
    /\ rendered \cap {"positions_table", "positions_info"} # {}
    /\ rendered \cap {"chart", "logs_info"} # {}
    /\ rendered \cap {"history_table", "history_info"} # {}

\* C10: the sleep-and-rerun step is entered only from the Controls step of a
\* pass that completed its fetches and its rendering with the checkbox checked;
\* a rerun starts only out of that sleep, and after a halted pass the next pass
\* starts on an external trigger only.
C10_RerunOnlyAfterCompletePass ==
    /\ [][(pc' = "sleeping" /\ pc # "sleeping") =>
            (pc = "controls" /\ auto' /\ PassComplete')]_vars
    /\ [][(pc' = "config" /\ pc # "config" /\ trigger' = "rerun") => pc = "sleeping"]_vars
    /\ [][(pc = "stopped" /\ pc' # "stopped") => (pc' = "config" /\ trigger' = "external")]_vars

C10_Witness ==
    /\ pc = "stopped"
    /\ error = "db"
    /\ auto
    /\ trigger = "rerun"

====
